---- MODULE Spec2Model ----
(***************************************************************************)
(* DeBERTa disentangled self-attention (src/deberta/attention.rs).         *)
(*                                                                         *)
(* State: the constructed DisentangledSelfAttention layer and the last     *)
(* forward_t call made on it (its inputs, the locals it computed and the   *)
(* value it returned).  Tensors are modelled by their shape plus the part  *)
(* of their contents the index algebra decides:                            *)
(*   - integer tensors (relative positions, gather indices) carry the      *)
(*     matrix of their last two axes; every leading axis is a singleton or *)
(*     a broadcast copy;                                                   *)
(*   - projected activations carry, per output column, the row of the      *)
(*     projection weight that produced it;                                 *)
(*   - score tensors carry, per (query, key) entry, the raw product entry  *)
(*     a gather selected.                                                  *)
(* Floating point values themselves are symbolic.                          *)
(* Fields of the layer that forward_t never reads (dropout,                *)
(* head_logits_proj, head_weights_proj) are left out.                      *)
(***************************************************************************)
EXTENDS Integers, Sequences, FiniteSets, TLC

VARIABLES layer, inputs, locals, result

vars == <<layer, inputs, locals, result>>

(***************************************************************************)
(* Bounds of the model.                                                    *)
(***************************************************************************)
MaxHeads == 2
MaxHidden == 3
MaxRel == 2
MaxPosEmb == 2
MaxBatch == 2
MaxLen == 2
MaxRank == 5
Extreme == 1073741000

(***************************************************************************)
(* Option<T>, Vec<T>::pop, small arithmetic.                               *)
(***************************************************************************)
None == <<>>
Some(v) == <<v>>
IsSome(o) == Len(o) = 1
IsNone(o) == Len(o) = 0
Unwrap(o) == o[1]

Min2(a, b) == IF a <= b THEN a ELSE b
Max2(a, b) == IF a >= b THEN a ELSE b
Last(s) == s[Len(s)]
Reverse(s) == [n \in 1..Len(s) |-> s[Len(s) + 1 - n]]
Pop(v) == [value |-> v[Len(v)], rest |-> SubSeq(v, 1, Len(v) - 1)]

(* Outcome of a fallible step: Ok(value), Err(RustBertError), or a panic   *)
(* (an unwrap of None, or an error raised by the tensor engine).           *)
Ok(v) == [tag |-> "Ok", value |-> Some(v), at |-> ""]
Err(kind) == [tag |-> "Err", value |-> None, at |-> kind]
Panic(where) == [tag |-> "Panic", value |-> None, at |-> where]

(***************************************************************************)
(* Integer tensors: [shape, data], data the matrix of the last two axes,   *)
(* indexed from 0 as in the source.                                        *)
(***************************************************************************)
Rank(t) == Len(t.shape)
NCols(t) == t.shape[Len(t.shape)]
NRows(t) == IF Len(t.shape) >= 2 THEN t.shape[Len(t.shape) - 1] ELSE 1
Matrix(r, c, F(_, _)) == [i \in 0..(r - 1) |-> [j \in 0..(c - 1) |-> F(i, j)]]

\* Tensor::arange(n, Int64)
Arange(n) ==
    [shape |-> <<n>>, data |-> Matrix(1, n, LAMBDA i, j : j)]

\* Tensor::unsqueeze(dim); a negative dim counts from the end of the new shape
Unsqueeze(t, dim) ==
    LET d == IF dim < 0 THEN dim + Rank(t) + 1 ELSE dim
        shape == SubSeq(t.shape, 1, d) \o <<1>> \o SubSeq(t.shape, d + 1, Rank(t))
    IN  IF d = Rank(t)
        THEN \* new trailing axis: the old last axis becomes the row axis
             [shape |-> shape,
              data |-> Matrix(NCols(t), 1, LAMBDA i, j : t.data[0][i])]
        ELSE [shape |-> shape, data |-> t.data]

\* Tensor::view([1, -1]) of a 1-d tensor
ViewRow(t) == [shape |-> <<1, NCols(t)>>, data |-> t.data]

\* Tensor::repeat([r, 1]) of a 2-d tensor
RepeatRows(t, r) ==
    [shape |-> <<NRows(t) * r, NCols(t)>>,
     data |-> Matrix(NRows(t) * r, NCols(t), LAMBDA i, j : t.data[i % NRows(t)][j])]

\* a - b with broadcasting of a's singleton column axis
SubBroadcast(a, b) ==
    [shape |-> b.shape,
     data |-> Matrix(NRows(b), NCols(b),
                     LAMBDA i, j : a.data[IF NRows(a) = 1 THEN 0 ELSE i]
                                         [IF NCols(a) = 1 THEN 0 ELSE j]
                                   - b.data[i][j])]

\* Tensor::slice(0, start, end, 1) of a 2-d tensor (bounds clamped to the axis)
SliceRows(t, start, end) ==
    LET s == Max2(0, Min2(start, NRows(t)))
        e == Max2(s, Min2(end, NRows(t)))
    IN  [shape |-> <<e - s, NCols(t)>>,
         data |-> Matrix(e - s, NCols(t), LAMBDA i, j : t.data[i + s][j])]

\* elementwise  t * sign + add
Affine(t, sign, add) ==
    [shape |-> t.shape,
     data |-> Matrix(NRows(t), NCols(t), LAMBDA i, j : sign * t.data[i][j] + add)]

\* Tensor::clamp(lo, hi): min(max(x, lo), hi)
Clamp(t, lo, hi) ==
    [shape |-> t.shape,
     data |-> Matrix(NRows(t), NCols(t),
                     LAMBDA i, j : Min2(Max2(t.data[i][j], lo), hi))]

\* Tensor::expand(shape, true): every source axis is 1 or equals the target
CanExpand(shape, target) ==
    /\ Len(shape) <= Len(target)
    /\ \A n \in 1..Len(shape) :
          LET s == shape[Len(shape) + 1 - n]
              g == target[Len(target) + 1 - n]
          IN  s = 1 \/ s = g

Expand(t, target) ==
    LET r == target[Len(target) - 1]
        c == target[Len(target)]
    IN  [shape |-> target,
         data |-> Matrix(r, c, LAMBDA i, j : t.data[IF NRows(t) = 1 THEN 0 ELSE i]
                                                   [IF NCols(t) = 1 THEN 0 ELSE j])]

\* Tensor::select(3, 0) of a 4-d tensor: column 0, the axis removed
SelectCol0(t) ==
    [shape |-> SubSeq(t.shape, 1, 3),
     data |-> Matrix(1, NRows(t), LAMBDA i, j : t.data[j][0])]

\* Tensor::transpose(-1, -2)
Transpose(t) ==
    [shape |-> SubSeq(t.shape, 1, Rank(t) - 2) \o <<NCols(t), NRows(t)>>,
     data |-> Matrix(NCols(t), NRows(t), LAMBDA i, j : t.data[j][i])]

\* Tensor::gather(dim, index): shapes agree off the gathered axis and every
\* index addresses the gathered axis
GatherShapeOk(t, index, dim) ==
    /\ Rank(index) = Rank(t)
    /\ \A n \in 1..Rank(t) : n # dim => index.shape[n] <= t.shape[n]

GatherInBounds(t, index, dim) ==
    \A i \in 0..(NRows(index) - 1), j \in 0..(NCols(index) - 1) :
        /\ index.data[i][j] >= 0
        /\ index.data[i][j] < t.shape[dim]

GatherLast(t, index) ==
    [shape |-> index.shape,
     data |-> Matrix(NRows(index), NCols(index),
                     LAMBDA i, j : t.data[i][index.data[i][j]])]

GatherRows(t, index) ==
    [shape |-> index.shape,
     data |-> Matrix(NRows(index), NCols(index),
                     LAMBDA i, j : t.data[index.data[i][j]][j])]

(***************************************************************************)
(* PositionAttentionTypes (deberta_model.rs): a list of the enabled        *)
(* position-attention kinds, used here only through has_type, len and      *)
(* default.                                                                *)
(***************************************************************************)
PositionAttentionType == {"c2p", "p2c", "p2p"}
has_type(pos_att_type, t) == t \in pos_att_type
len(pos_att_type) == Cardinality(pos_att_type)
DefaultPositionAttentionTypes == {}

(***************************************************************************)
(* nn::linear(path, in_dim, out_dim, config): weight ws of shape           *)
(* (out_dim, in_dim) and an optional bias.                                 *)
(***************************************************************************)
nn_linear(name, in_dim, out_dim, bias) ==
    [name |-> name, in_dim |-> in_dim, out_dim |-> out_dim, bias |-> bias]

(***************************************************************************)
(* DisentangledSelfAttention::new                                          *)
(***************************************************************************)
attention_head_size(config) == config.hidden_size \div config.num_attention_heads
all_head_size(config) == config.num_attention_heads * attention_head_size(config)

new_max_relative_positions(config) ==
    LET max_relative_positions ==
            IF IsSome(config.max_relative_positions)
            THEN Unwrap(config.max_relative_positions) ELSE -1
    IN  IF max_relative_positions < 1
        THEN config.max_position_embeddings
        ELSE max_relative_positions

PosProjWanted_c2pOnly(pos_att_type) == has_type(pos_att_type, "c2p")
new_pos_proj_wanted(pos_att_type) ==
    has_type(pos_att_type, "c2p") \/ has_type(pos_att_type, "p2p")

new_pos_q_proj_wanted(pos_att_type) ==
    has_type(pos_att_type, "p2c") \/ has_type(pos_att_type, "p2p")

new(config) ==
    LET pos_att_type ==
            IF IsSome(config.pos_att_type)
            THEN Unwrap(config.pos_att_type) ELSE DefaultPositionAttentionTypes
        relative_attention ==
            IF IsSome(config.relative_attention)
            THEN Unwrap(config.relative_attention) ELSE FALSE
    IN  [in_proj |-> nn_linear("in_proj", config.hidden_size,
                               all_head_size(config) * 3, FALSE),
         q_bias |-> [name |-> "q_bias", shape |-> <<all_head_size(config)>>],
         v_bias |-> [name |-> "v_bias", shape |-> <<all_head_size(config)>>],
         num_attention_heads |-> config.num_attention_heads,
         pos_proj |->
            IF relative_attention /\ new_pos_proj_wanted(pos_att_type)
            THEN Some(nn_linear("pos_proj", config.hidden_size,
                                all_head_size(config), FALSE))
            ELSE None,
         pos_q_proj |->
            IF relative_attention /\ new_pos_q_proj_wanted(pos_att_type)
            THEN Some(nn_linear("pos_q_proj", config.hidden_size,
                                all_head_size(config), TRUE))
            ELSE None,
         pos_att_type |-> pos_att_type,
         max_relative_positions |->
            IF relative_attention
            THEN Some(new_max_relative_positions(config)) ELSE None,
         pos_dropout |->
            IF relative_attention THEN Some("XDropout") ELSE None]

\* DebertaConfig values the constructor is given
Configs ==
    [hidden_size : MaxHeads..MaxHidden,
     num_attention_heads : 1..MaxHeads,
     pos_att_type : {None} \cup {Some(s) : s \in SUBSET PositionAttentionType},
     relative_attention : {None, Some(FALSE), Some(TRUE)},
     max_relative_positions : {None} \cup {Some(m) : m \in 0..MaxRel},
     max_position_embeddings : {MaxPosEmb}]

ValidConfig(config) == config.hidden_size >= config.num_attention_heads

(***************************************************************************)
(* Activations: [shape, src, via, cols, plus, div].  src names the tensor  *)
(* that was projected, via the weight, cols[c] the weight row that         *)
(* produced output column c, plus the tensors added and div the radicands  *)
(* of the square roots divided by.  After transpose_for_scores the columns *)
(* are held per head in head_cols.                                         *)
(***************************************************************************)
Iota(n) == [c \in 1..n |-> c - 1]

\* Tensor::chunk(chunks, dim) on a list of rows / columns
Chunk(seq, chunks) ==
    LET size == (Len(seq) + chunks - 1) \div chunks
        count == (Len(seq) + size - 1) \div size
    IN  [c \in 1..count |->
            SubSeq(seq, (c - 1) * size + 1, Min2(c * size, Len(seq)))]

RECURSIVE Cat(_)
Cat(list) == IF Len(list) = 0 THEN <<>> ELSE list[1] \o Cat(Tail(list))

\* self.linear(weights, None, x): x.matmul(&weights.tr())
linear_ok(weights, x) == Last(x.shape) = weights.in_dim
linear(weights, x) ==
    [shape |-> SubSeq(x.shape, 1, Len(x.shape) - 1) \o <<Len(weights.rows)>>,
     src |-> x.name, via |-> weights.name, cols |-> weights.rows,
     plus |-> <<>>, div |-> <<>>]

\* the weight of an nn::Linear: rows 0 .. out_dim - 1
ws(lin) == [name |-> lin.name, rows |-> Iota(lin.out_dim), in_dim |-> lin.in_dim]

\* Tensor::apply(&nn::Linear)
apply(x, lin) ==
    [linear(ws(lin), x) EXCEPT
        !.plus = IF lin.bias THEN <<[src |-> lin.name \o ".bs"]>> ELSE <<>>]

\* transpose_for_scores: view(.., num_attention_heads, -1).permute(0, 2, 1, 3)
transpose_for_scores_ok(self, x) ==
    /\ Last(x.shape) > 0
    /\ Last(x.shape) % self.num_attention_heads = 0

transpose_for_scores(self, x) ==
    LET heads == self.num_attention_heads
        width == Last(x.shape) \div heads
    IN  [shape |-> <<x.shape[1], heads, x.shape[2], width>>,
         src |-> x.src, via |-> x.via,
         head_cols |-> [h \in 0..(heads - 1) |->
                           SubSeq(x.cols, h * width + 1, (h + 1) * width)],
         plus |-> x.plus, div |-> x.div]

\* Tensor::chunk(chunks, -1) of a per-head tensor
ChunkLast(t, chunks) ==
    LET size == (Last(t.shape) + chunks - 1) \div chunks
        count == (Last(t.shape) + size - 1) \div size
    IN  [c \in 1..count |->
            [t EXCEPT
                !.shape = SubSeq(t.shape, 1, 3)
                            \o <<Min2(c * size, Last(t.shape)) - (c - 1) * size>>,
                !.head_cols = [h \in DOMAIN t.head_cols |->
                                  SubSeq(t.head_cols[h], (c - 1) * size + 1,
                                         Min2(c * size, Last(t.shape)))]]]

\* a + b and a / sqrt(radicand), broadcasting b over a
BroadcastOk(a, b) ==
    \A n \in 1..Min2(Len(a), Len(b)) :
        LET x == a[Len(a) + 1 - n]
            y == b[Len(b) + 1 - n]
        IN  x = y \/ x = 1 \/ y = 1

Broadcast(a, b) ==
    LET n == Max2(Len(a), Len(b))
        At(s, m) == IF m <= n - Len(s) THEN 1 ELSE s[m - (n - Len(s))]
    IN  [m \in 1..n |-> Max2(At(a, m), At(b, m))]

Add(a, b) == [a EXCEPT !.shape = Broadcast(a.shape, b.shape),
                       !.plus = Append(a.plus, b)]
Div(a, radicand) == [a EXCEPT !.div = Append(a.div, radicand)]

(***************************************************************************)
(* forward_t, projection stage (lines 345-384): the incremental path when  *)
(* query_states is given, the standard path otherwise.                     *)
(***************************************************************************)
query_key_value_weights(self, k) ==
    LET chunks == Chunk(ws(self.in_proj).rows, self.num_attention_heads * 3)
    IN  [name |-> self.in_proj.name,
         rows |-> Cat([i \in 1..self.num_attention_heads |->
                          chunks[(i - 1) * 3 + k + 1]]),
         in_dim |-> self.in_proj.in_dim]

incremental_ok(self, hidden_states, query_states) ==
    /\ linear_ok(query_key_value_weights(self, 0), query_states)
    /\ linear_ok(query_key_value_weights(self, 1), hidden_states)

incremental_layers(self, hidden_states, query_states) ==
    [query_layer |-> transpose_for_scores(self,
                        linear(query_key_value_weights(self, 0), query_states)),
     key_layer |-> transpose_for_scores(self,
                        linear(query_key_value_weights(self, 1), hidden_states)),
     value_layer |-> transpose_for_scores(self,
                        linear(query_key_value_weights(self, 2), hidden_states))]

standard_layers(self, hidden_states) ==
    LET qp == apply(hidden_states, self.in_proj)
        layers == ChunkLast(transpose_for_scores(self, qp), 3)
        first == Pop(layers)
        second == Pop(first.rest)
        third == Pop(second.rest)
    IN  [query_layer |-> first.value, key_layer |-> second.value,
         value_layer |-> third.value]

\* lines 386-389: q_bias on the query layer, v_bias on the value layer
bias_for_scores(self, bias) ==
    transpose_for_scores(self,
        [shape |-> <<1, 1>> \o bias.shape, src |-> bias.name, via |-> "",
         cols |-> Iota(bias.shape[1]), plus |-> <<>>, div |-> <<>>])

with_biases(self, layers) ==
    [layers EXCEPT
        !.query_layer = Add(layers.query_layer, bias_for_scores(self, self.q_bias)),
        !.value_layer = Add(layers.value_layer, bias_for_scores(self, self.v_bias))]

\* lines 391-394: scale factor, scaled query layer and content-content scores
scale_factor(self) == 1 + len(self.pos_att_type)
scale_radicand(self, query_layer) == Last(query_layer.shape) * scale_factor(self)

matmul_transposed_ok(a, b) ==
    /\ Last(a.shape) = Last(b.shape)
    /\ BroadcastOk(SubSeq(a.shape, 1, 2), SubSeq(b.shape, 1, 2))

content_scores(query_layer, key_layer) ==
    [shape |-> Broadcast(SubSeq(query_layer.shape, 1, 2), SubSeq(key_layer.shape, 1, 2))
                 \o <<query_layer.shape[3], key_layer.shape[3]>>,
     query |-> query_layer, key |-> key_layer, plus |-> <<>>]

(***************************************************************************)
(* build_relative_position (lines 158-163)                                 *)
(***************************************************************************)
Size(t, n) == t.shape[n + 1]

BuildRelativePosition_Negated(query_size, key_size) ==
    [shape |-> <<1, query_size, key_size>>,
     data |-> Matrix(query_size, key_size, LAMBDA i, j : j - i)]

build_relative_position(query_size, key_size) ==
    LET q_ids == Arange(query_size)
        k_ids == Arange(key_size)
        rel_pos_ids == SubBroadcast(Unsqueeze(q_ids, -1),
                                    RepeatRows(ViewRow(k_ids), query_size))
    IN  Unsqueeze(SliceRows(rel_pos_ids, 0, query_size), 0)

(***************************************************************************)
(* disentangled_att_bias (lines 220-334), step by step                     *)
(***************************************************************************)
\* lines 242-252: the relative position table brought to four axes
NormaliseRank_Rank3Leading(relative_pos) ==
    IF Rank(relative_pos) = 2 THEN Ok(Unsqueeze(Unsqueeze(relative_pos, 0), 0))
    ELSE IF Rank(relative_pos) = 3 THEN Ok(Unsqueeze(relative_pos, 0))
    ELSE IF Rank(relative_pos) = 4 THEN Ok(relative_pos)
    ELSE Err("ValueError: Expected relative position of dimensions 2, 3 or 4")

normalise_rank(relative_pos) ==
    IF Rank(relative_pos) = 2 THEN Ok(Unsqueeze(Unsqueeze(relative_pos, 0), 0))
    ELSE IF Rank(relative_pos) = 3 THEN Ok(Unsqueeze(relative_pos, 1))
    ELSE IF Rank(relative_pos) = 4 THEN Ok(relative_pos)
    ELSE Err("ValueError: Expected relative position of dimensions 2, 3 or 4")

\* lines 254-263
attention_span(self, query_layer, key_layer) ==
    Min2(Max2(Size(query_layer, 1), Size(key_layer, 1)),
         Unwrap(self.max_relative_positions))

\* lines 265-272: the window of the relative embeddings, with a leading axis
embedding_window(self, relative_embeddings, span) ==
    LET start == Max2(0, Min2(Unwrap(self.max_relative_positions) - span,
                              relative_embeddings.shape[1]))
        end == Max2(start, Min2(Unwrap(self.max_relative_positions) + span,
                                relative_embeddings.shape[1]))
    IN  [name |-> relative_embeddings.name,
         shape |-> <<1, end - start, relative_embeddings.shape[2]>>,
         rowids |-> SubSeq(relative_embeddings.rowids, start + 1, end)]

\* lines 274-283
pos_layer(self, proj, window) ==
    IF IsSome(proj)
    THEN Some(transpose_for_scores(self, apply(window, Unwrap(proj))))
    ELSE None

\* a.matmul(&b.transpose(-1, -2)) of two per-head tensors: entry (i, p) is
\* row i of a times row p of b
RawScores(a, b) ==
    [shape |-> Broadcast(SubSeq(a.shape, 1, 2), SubSeq(b.shape, 1, 2))
                 \o <<a.shape[3], b.shape[3]>>,
     lhs |-> a.src, lhs_div |-> a.div, rhs |-> b.via, rhs_div |-> b.div,
     data |-> Matrix(a.shape[3], b.shape[3], LAMBDA i, p : [row |-> i, pos |-> p])]

\* line 285: Tensor::zeros(&[1]); score + term
Zeros1 == [shape |-> <<1>>, terms |-> <<>>]
AddTerm(score, name, term) ==
    [shape |-> Broadcast(score.shape, term.shape),
     terms |-> Append(score.terms, [name |-> name, shape |-> term.shape,
                                    data |-> term.data])]

\* line 289 and line 313
ClampHi_OffByOne(span) == span * 2
clamp_hi(span) == span * 2 - 1

c2p_pos(relative_pos, span) == Clamp(Affine(relative_pos, 1, span), 0, clamp_hi(span))

P2cPos_NotNegated(r_pos, span) == Clamp(Affine(r_pos, 1, span), 0, clamp_hi(span))
p2c_pos(r_pos, span) == Clamp(Affine(r_pos, -1, span), 0, clamp_hi(span))

\* lines 165-181, 183-201, 203-218: the shapes the index tensors are expanded to
c2p_dynamic_expand(query_layer, relative_pos) ==
    <<Size(query_layer, 0), Size(query_layer, 1), Size(query_layer, 2),
      Last(relative_pos.shape)>>

p2c_dynamic_expand(query_layer, key_layer) ==
    LET key_layer_size == Reverse(key_layer.shape)
    IN  <<Size(query_layer, 0), Size(query_layer, 1),
          key_layer_size[2], key_layer_size[2]>>

pos_dynamic_expand(pos_index, p2c_att, key_layer) ==
    LET key_layer_size == Reverse(key_layer.shape)
        pos_index_size == Reverse(pos_index.shape)
    IN  SubSeq(p2c_att.shape, 1, 2) \o <<pos_index_size[2], key_layer_size[2]>>

\* a gather along the last axis through an expanded index, as the tensor
\* engine checks it
checked_gather_last(raw, index, shape_error, index_error) ==
    IF ~GatherShapeOk(raw, index, 4) THEN Panic(shape_error)
    ELSE IF ~GatherInBounds(raw, index, 4) THEN Panic(index_error)
    ELSE Ok(GatherLast(raw, index))

expand_and_gather_last(raw, pos, target, expand_error, shape_error, index_error) ==
    IF ~CanExpand(pos.shape, target) THEN Panic(expand_error)
    ELSE checked_gather_last(raw, Expand(pos, target), shape_error, index_error)

\* lines 287-296: the content-to-position term
c2p_term(query_layer, relative_pos, pos_key_layer, span) ==
    IF IsNone(pos_key_layer) THEN Panic("pos_key_layer.unwrap()")
    ELSE IF ~matmul_transposed_ok(query_layer, Unwrap(pos_key_layer))
    THEN Panic("c2p matmul")
    ELSE expand_and_gather_last(RawScores(query_layer, Unwrap(pos_key_layer)),
                                c2p_pos(relative_pos, span),
                                c2p_dynamic_expand(query_layer, relative_pos),
                                "c2p expand", "c2p gather shape", "c2p gather index")

\* lines 304-312: the table the p2c index is taken from
r_pos(query_layer, key_layer, relative_pos) ==
    IF Reverse(query_layer.shape)[2] # Reverse(key_layer.shape)[2]
    THEN [rebuilt |-> TRUE,
          table |-> build_relative_position(Reverse(key_layer.shape)[2],
                                            Reverse(key_layer.shape)[2])]
    ELSE [rebuilt |-> FALSE, table |-> relative_pos]

\* lines 314-321: first gather, then transpose(-1, -2)
transposed(gathered) ==
    IF gathered.tag = "Ok" THEN Ok(Transpose(Unwrap(gathered.value))) ELSE gathered

p2c_first(query_layer, key_layer, relative_pos, pos_query_layer, span) ==
    IF IsNone(pos_query_layer) THEN Panic("pos_query_layer.unwrap()")
    ELSE IF ~matmul_transposed_ok(key_layer, Unwrap(pos_query_layer))
    THEN Panic("p2c matmul")
    ELSE transposed(
            expand_and_gather_last(
                RawScores(key_layer, Unwrap(pos_query_layer)),
                p2c_pos(r_pos(query_layer, key_layer, relative_pos).table, span),
                p2c_dynamic_expand(query_layer, key_layer),
                "p2c expand", "p2c gather shape", "p2c gather index"))

\* lines 322-329: second gather, along the second-to-last axis
second_gather_wanted(query_layer, key_layer) ==
    Reverse(query_layer.shape)[2] # Reverse(key_layer.shape)[2]

pos_index_of(relative_pos) == Unsqueeze(SelectCol0(relative_pos), -1)

checked_gather_rows(p2c_att, index) ==
    IF ~GatherShapeOk(p2c_att, index, 3) THEN Panic("p2c second gather shape")
    ELSE IF ~GatherInBounds(p2c_att, index, 3) THEN Panic("p2c second gather index")
    ELSE Ok(GatherRows(p2c_att, index))

expand_and_gather_rows(p2c_att, pos_index, target) ==
    IF ~CanExpand(pos_index.shape, target) THEN Panic("pos_index expand")
    ELSE checked_gather_rows(p2c_att, Expand(pos_index, target))

p2c_second(p2c_att, key_layer, pos_index) ==
    expand_and_gather_rows(p2c_att, pos_index,
                           pos_dynamic_expand(pos_index, p2c_att, key_layer))

p2c_finish(first, query_layer, key_layer, relative_pos) ==
    IF first.tag # "Ok" THEN first
    ELSE IF second_gather_wanted(query_layer, key_layer)
    THEN p2c_second(Unwrap(first.value), key_layer, pos_index_of(relative_pos))
    ELSE first

p2c_term(query_layer, key_layer, relative_pos, pos_query_layer, span) ==
    p2c_finish(p2c_first(query_layer, key_layer, relative_pos, pos_query_layer, span),
               query_layer, key_layer, relative_pos)

\* lines 287, 295 and 300, 330: a term is added exactly when its kind is enabled
AddIfEnabled_P2pCounts(self, kind, score, term) ==
    IF has_type(self.pos_att_type, kind) \/ has_type(self.pos_att_type, "p2p")
    THEN AddTerm(score, kind, Unwrap(term.value))
    ELSE score

add_if_enabled(self, kind, score, term) ==
    IF has_type(self.pos_att_type, kind)
    THEN AddTerm(score, kind, Unwrap(term.value))
    ELSE score

\* what the engine computed, for the properties below
NoEngineLocals ==
    [calc_relative_pos |-> None, relative_pos |-> None, attention_span |-> None,
     window |-> None, pos_key_layer |-> None, pos_query_layer |-> None,
     c2p_pos |-> None, c2p_att |-> None,
     r_pos |-> None, rebuilt |-> None, second_gather |-> None,
     p2c_pos |-> None, p2c_att |-> None,
     score |-> None]

\* lines 232-241
calc_relative_pos(query_layer, key_layer, relative_pos) ==
    IF IsNone(relative_pos)
    THEN Some(build_relative_position(Reverse(query_layer.shape)[2],
                                      Reverse(key_layer.shape)[2]))
    ELSE None

unwrap_or_else(relative_pos, calc) ==
    IF IsSome(relative_pos) THEN Unwrap(relative_pos) ELSE Unwrap(calc)

\* line 302-303: the position query layer rescaled
rescaled(pos_query_layer, factor) ==
    IF IsSome(pos_query_layer)
    THEN Some(Div(Unwrap(pos_query_layer),
                  Last(Unwrap(pos_query_layer).shape) * factor))
    ELSE None

\* lines 285-333, given the two terms: the accumulated score, or the first failure
engine_result(self, loc, c2p_att, p2c_locals, p2c_att) ==
    IF has_type(self.pos_att_type, "c2p") /\ c2p_att.tag # "Ok"
    THEN [result |-> c2p_att, loc |-> loc]
    ELSE IF has_type(self.pos_att_type, "p2c") /\ p2c_att.tag # "Ok"
    THEN [result |-> p2c_att,
          loc |-> IF p2c_att.at = "pos_query_layer.unwrap()" THEN loc
                  ELSE [n \in DOMAIN loc |->
                          IF n \in DOMAIN p2c_locals THEN p2c_locals[n] ELSE loc[n]]]
    ELSE [result |-> Ok(add_if_enabled(self, "p2c",
                            add_if_enabled(self, "c2p", Zeros1, c2p_att), p2c_att)),
          loc |-> [n \in DOMAIN loc |->
                     IF n = "score"
                     THEN Some(add_if_enabled(self, "p2c",
                                 add_if_enabled(self, "c2p", Zeros1, c2p_att), p2c_att))
                     ELSE IF n \in DOMAIN p2c_locals THEN p2c_locals[n]
                     ELSE loc[n]]]

c2p_locals(self, loc, relative_pos, span, c2p_att) ==
    IF has_type(self.pos_att_type, "c2p")
    THEN [loc EXCEPT !.c2p_pos = Some(c2p_pos(relative_pos, span)),
                     !.c2p_att = c2p_att.value]
    ELSE loc

p2c_locals(self, rp, wanted, span, p2c_att) ==
    IF has_type(self.pos_att_type, "p2c")
    THEN [r_pos |-> Some(rp.table), rebuilt |-> Some(rp.rebuilt),
          second_gather |-> Some(wanted),
          p2c_pos |-> Some(p2c_pos(rp.table, span)),
          p2c_att |-> p2c_att.value]
    ELSE [r_pos |-> None]

engine_c2p(self, loc, relative_pos, span, c2p_att, p2c_locs, p2c_att) ==
    engine_result(self, c2p_locals(self, loc, relative_pos, span, c2p_att),
                  c2p_att, p2c_locs, p2c_att)

engine_p2c(self, query_layer, key_layer, loc, relative_pos, span, c2p_att, p2c_att) ==
    engine_c2p(self, loc, relative_pos, span, c2p_att,
               p2c_locals(self, r_pos(query_layer, key_layer, relative_pos),
                          second_gather_wanted(query_layer, key_layer), span, p2c_att),
               p2c_att)

\* lines 274-331, given the window
engine_terms(self, query_layer, key_layer, loc, relative_pos, span, pos_key_layer, pos_query_layer, factor) ==
    engine_p2c(self, query_layer, key_layer,
               [loc EXCEPT !.pos_key_layer = pos_key_layer,
                           !.pos_query_layer = pos_query_layer],
               relative_pos, span,
               c2p_term(query_layer, relative_pos, pos_key_layer, span),
               p2c_term(query_layer, key_layer, relative_pos,
                        rescaled(pos_query_layer, factor), span))

engine_window(self, query_layer, key_layer, loc, relative_pos, span, window, factor) ==
    engine_terms(self, query_layer, key_layer,
                 [loc EXCEPT !.relative_pos = Some(relative_pos),
                             !.attention_span = Some(span),
                             !.window = Some(window)],
                 relative_pos, span,
                 pos_layer(self, self.pos_proj, window),
                 pos_layer(self, self.pos_q_proj, window), factor)

engine_span(self, query_layer, key_layer, loc, relative_pos, relative_embeddings, span, factor) ==
    engine_window(self, query_layer, key_layer, loc, relative_pos, span,
                  embedding_window(self, relative_embeddings, span), factor)

\* lines 242-263, given the table: the rank check, then the span
engine_rank(self, query_layer, key_layer, loc, norm, relative_embeddings, factor) ==
    IF norm.tag # "Ok" THEN [result |-> norm, loc |-> loc]
    ELSE IF IsNone(self.max_relative_positions)
    THEN [result |-> Panic("max_relative_positions.unwrap()"), loc |-> loc]
    ELSE engine_span(self, query_layer, key_layer, loc, Unwrap(norm.value),
                     relative_embeddings,
                     attention_span(self, query_layer, key_layer), factor)

engine_table(self, query_layer, key_layer, relative_pos, calc, relative_embeddings, factor) ==
    engine_rank(self, query_layer, key_layer,
                [NoEngineLocals EXCEPT !.calc_relative_pos = calc],
                normalise_rank(unwrap_or_else(relative_pos, calc)),
                relative_embeddings, factor)

disentangled_att_bias(self, query_layer, key_layer, relative_pos, relative_embeddings, factor) ==
    engine_table(self, query_layer, key_layer, relative_pos,
                 calc_relative_pos(query_layer, key_layer, relative_pos),
                 relative_embeddings, factor)

(***************************************************************************)
(* forward_t (lines 336-410)                                               *)
(***************************************************************************)
\* Tensor::new(): an undefined tensor, no axes and no data
Tensor_new == [shape |-> <<>>, query |-> None, key |-> None, plus |-> <<>>]

NoLocals ==
    [query_layer |-> None, key_layer |-> None, value_layer |-> None,
     attention_scores |-> None, engine |-> None]

\* line 409
return_value(attention_scores) == Tensor_new

\* lines 396-409, given the content scores and the engine's outcome
forward_return(self, relative_embeddings, loc, content, engine) ==
    IF IsNone(relative_embeddings)
    THEN [result |-> Ok(return_value(content)), locals |-> loc]
    ELSE IF IsNone(self.pos_dropout)
    THEN [result |-> Panic("pos_dropout.unwrap()"), locals |-> loc]
    ELSE IF engine.result.tag # "Ok"
    THEN [result |-> engine.result,
          locals |-> [loc EXCEPT !.engine = Some(engine.loc)]]
    ELSE IF ~BroadcastOk(content.shape, Unwrap(engine.result.value).shape)
    THEN [result |-> Panic("attention_scores + relative_attention"),
          locals |-> [loc EXCEPT !.engine = Some(engine.loc)]]
    ELSE [result |-> Ok(return_value(Add(content, Unwrap(engine.result.value)))),
          locals |-> [loc EXCEPT
                        !.engine = Some(engine.loc),
                        !.attention_scores =
                            Some(Add(content, Unwrap(engine.result.value)))]]

\* lines 391-407, given the scaled query layer
forward_scores(self, relative_pos, relative_embeddings, layers, query_layer, content) ==
    forward_return(self, relative_embeddings,
                   [NoLocals EXCEPT !.query_layer = Some(query_layer),
                                    !.key_layer = Some(layers.key_layer),
                                    !.value_layer = Some(layers.value_layer),
                                    !.attention_scores = Some(content)],
                   content,
                   disentangled_att_bias(self, query_layer, layers.key_layer,
                                         relative_pos, Unwrap(relative_embeddings),
                                         scale_factor(self)))

forward_scaled(self, relative_pos, relative_embeddings, layers, query_layer) ==
    forward_scores(self, relative_pos, relative_embeddings, layers, query_layer,
                   content_scores(query_layer, layers.key_layer))

\* lines 386-394, given the projected layers
forward_biased(self, relative_pos, relative_embeddings, layers) ==
    forward_scaled(self, relative_pos, relative_embeddings, layers,
                   Div(layers.query_layer, scale_radicand(self, layers.query_layer)))

projection_ok(self, hidden_states, query_states) ==
    IF IsSome(query_states)
    THEN incremental_ok(self, hidden_states, Unwrap(query_states))
    ELSE linear_ok(ws(self.in_proj), hidden_states)

projected(self, hidden_states, query_states) ==
    IF IsSome(query_states)
    THEN incremental_layers(self, hidden_states, Unwrap(query_states))
    ELSE standard_layers(self, hidden_states)

forward_t(self, hidden_states, query_states, relative_pos, relative_embeddings) ==
    IF ~projection_ok(self, hidden_states, query_states)
    THEN [result |-> Panic("projection matmul"), locals |-> NoLocals]
    ELSE forward_biased(self, relative_pos, relative_embeddings,
                        with_biases(self, projected(self, hidden_states, query_states)))

(***************************************************************************)
(* The arguments of a forward_t call.  hidden_states and query_states have *)
(* the layer's input width; query_states may be hidden_states itself.  An  *)
(* externally supplied relative position table has any rank up to MaxRank, *)
(* one table for every batch element (a leading batch axis from rank 3 on) *)
(* and entries i - j shifted by an offset that may be extreme.  The relative embedding table is the encoder's, of          *)
(* 2 * max_relative_positions rows.                                        *)
(***************************************************************************)
RelEmbeddingsRows(self) ==
    IF IsSome(self.max_relative_positions)
    THEN 2 * Unwrap(self.max_relative_positions) ELSE 0

RelativeEmbeddings(self) ==
    [name |-> "relative_embeddings",
     shape |-> <<RelEmbeddingsRows(self), self.in_proj.in_dim>>,
     rowids |-> Iota(RelEmbeddingsRows(self))]

HiddenStates(self, batch, seq_len) ==
    [name |-> "hidden_states", shape |-> <<batch, seq_len, self.in_proj.in_dim>>]

QueryStates(self, batch, seq_len) ==
    [name |-> "query_states", shape |-> <<batch, seq_len, self.in_proj.in_dim>>]

Offsets == {-Extreme, 0, Extreme}

\* leading axes of an external table: a batch axis first, singletons after it,
\* and a singleton before it from rank 5 on
LeadingAxes(rank, batch) ==
    [n \in 1..(rank - 2) |->
        IF n = (IF rank >= 5 THEN 2 ELSE 1) THEN batch ELSE 1]

ExternalTable(rank, batch, query_len, key_len, offset) ==
    IF rank = 1
    THEN [shape |-> <<key_len>>,
          data |-> Matrix(1, key_len, LAMBDA i, j : offset - j)]
    ELSE [shape |-> LeadingAxes(rank, batch) \o <<query_len, key_len>>,
          data |-> Matrix(query_len, key_len, LAMBDA i, j : i - j + offset)]

QueryLen(hidden_states, query_states) ==
    IF IsSome(query_states) THEN Unwrap(query_states).shape[2]
    ELSE hidden_states.shape[2]

(***************************************************************************)
(* Actions                                                                 *)
(***************************************************************************)
Init ==
    /\ layer = None
    /\ inputs = None
    /\ locals = NoLocals
    /\ result = None

New ==
    /\ IsNone(layer)
    /\ \E config \in Configs :
          /\ ValidConfig(config)
          /\ layer' = Some(new(config))
    /\ UNCHANGED <<inputs, locals, result>>

Returned(call) ==
    /\ locals' = call.locals
    /\ result' = Some(call.result)

Call(hidden_states, query_states, relative_pos, relative_embeddings) ==
    /\ inputs' = Some([hidden_states |-> hidden_states,
                       query_states |-> query_states,
                       relative_pos |-> relative_pos,
                       relative_embeddings |-> relative_embeddings])
    /\ Returned(forward_t(Unwrap(layer), hidden_states, query_states,
                          relative_pos, relative_embeddings))

\* forward_t takes &self and writes no field, so a call's outcome depends on
\* the layer and the arguments alone: one call per constructed layer covers
\* every call.
Forward ==
    /\ IsSome(layer)
    /\ IsNone(result)
    /\ \E batch \in 1..MaxBatch, key_len \in 1..MaxLen :
       \E query_states \in
              {None, Some(HiddenStates(Unwrap(layer), batch, key_len))}
              \cup {Some(QueryStates(Unwrap(layer), batch, n)) : n \in 1..MaxLen} :
       \E relative_pos \in
              {None} \cup
              {Some(ExternalTable(rank, batch,
                        QueryLen(HiddenStates(Unwrap(layer), batch, key_len),
                                 query_states),
                        key_len, offset)) :
                   rank \in 1..MaxRank, offset \in Offsets} :
       \E relative_embeddings \in {None, Some(RelativeEmbeddings(Unwrap(layer)))} :
          Call(HiddenStates(Unwrap(layer), batch, key_len),
               query_states, relative_pos, relative_embeddings)
    /\ UNCHANGED layer

Next == New \/ Forward

Spec == Init /\ [][Next]_vars

(***************************************************************************)
(* Properties.  Called: a forward_t call has returned; the names below     *)
(* read the layer, the call's arguments, its locals and its outcome.       *)
(***************************************************************************)
Called == IsSome(result)
Self == Unwrap(layer)
Args == Unwrap(inputs)
Outcome == Unwrap(result)
EngineRan == Called /\ IsSome(locals.engine)
Engine == Unwrap(locals.engine)

Batch == Args.hidden_states.shape[1]
KeyLen == Args.hidden_states.shape[2]
QLen == QueryLen(Args.hidden_states, Args.query_states)
Heads == Self.num_attention_heads
HeadSize == Self.in_proj.out_dim \div (3 * Heads)
Enabled(kind) == has_type(Self.pos_att_type, kind)
ClampTo(x, lo, hi) == IF x < lo THEN lo ELSE IF x > hi THEN hi ELSE x
Entries(t) == {t.data[i][j] : i \in 0..(NRows(t) - 1), j \in 0..(NCols(t) - 1)}
WeightSlice(n) == [c \in 1..HeadSize |-> n * HeadSize + c - 1]

(* C1: every forward_t call that returns Ok returns the attention scores:  *)
(* a tensor of shape (batch, num_heads, query_len, key_len) whose value is *)
(* the scaled query times the transposed key, plus the engine's bias when  *)
(* relative embeddings were supplied.                                      *)
C1_ReturnsAttentionScores ==
    (Called /\ Outcome.tag = "Ok") =>
        LET returned == Unwrap(Outcome.value)
        IN  /\ returned.shape = <<Batch, Heads, QLen, KeyLen>>
            /\ returned.query = Unwrap(locals.query_layer)
            /\ returned.key = Unwrap(locals.key_layer)
            /\ returned.plus = IF IsSome(Args.relative_embeddings)
                               THEN <<Unwrap(Engine.score)>> ELSE <<>>

(* C2: the attention span the engine computes equals                       *)
(* min(max(query_len, key_len), max_relative_positions), so it is at most  *)
(* max_relative_positions and at most max(query_len, key_len).             *)
C2_AttentionSpan ==
    (EngineRan /\ IsSome(Engine.attention_span)) =>
        /\ Unwrap(Engine.attention_span)
             = Min2(Max2(QLen, KeyLen), Unwrap(Self.max_relative_positions))
        /\ Unwrap(Engine.attention_span) <= Max2(QLen, KeyLen)

(* C3: for arbitrary relative offsets, the clamped c2p and p2c indices lie *)
(* in [0, 2*attention_span - 1]; that range is exactly the index range of  *)
(* the embedding window, which is rows                                     *)
(* [max_relative_positions - span, max_relative_positions + span) of the   *)
(* table and lies inside its 2*max_relative_positions rows.                *)
C3_IndicesInWindow ==
    (EngineRan /\ IsSome(Engine.attention_span)) =>
        LET span == Unwrap(Engine.attention_span)
            mrp == Unwrap(Self.max_relative_positions)
            window == Unwrap(Engine.window)
        IN  /\ IsSome(Engine.c2p_pos) =>
                  Entries(Unwrap(Engine.c2p_pos)) \subseteq 0..(2 * span - 1)
            /\ IsSome(Engine.p2c_pos) =>
                  Entries(Unwrap(Engine.p2c_pos)) \subseteq 0..(2 * span - 1)
            /\ window.shape[2] = 2 * span
            /\ window.rowids = [n \in 1..(2 * span) |-> mrp - span + n - 1]
            /\ 0 <= mrp - span
            /\ mrp + span <= Unwrap(Args.relative_embeddings).shape[1]
            /\ Unwrap(Args.relative_embeddings).shape[1] = 2 * mrp

C3_Witness ==
    /\ EngineRan /\ Outcome.tag = "Ok"
    /\ IsSome(Args.relative_pos)
    /\ Entries(Unwrap(Args.relative_pos)) = {Extreme}
    /\ IsSome(Engine.c2p_pos) /\ IsSome(Engine.p2c_pos)
    /\ Entries(Unwrap(Engine.c2p_pos)) = {2 * Unwrap(Engine.attention_span) - 1}
    /\ Entries(Unwrap(Engine.p2c_pos)) = {0}

(* C4: a layer whose hidden_size is not divisible by num_attention_heads   *)
(* (head_size * num_heads # hidden_size) never returns Ok from forward_t.  *)
C4_NonDivisibleFails ==
    (Called /\ HeadSize * Heads # Self.in_proj.in_dim) => Outcome.tag # "Ok"

\* the rank rule of the relative position table
InvalidRank == Err("ValueError: Expected relative position of dimensions 2, 3 or 4")
GivenTable == Unwrap(Args.relative_pos)
Normalised ==
    [shape |-> IF Rank(GivenTable) = 2 THEN <<1, 1>> \o GivenTable.shape
               ELSE IF Rank(GivenTable) = 3
               THEN <<GivenTable.shape[1], 1, GivenTable.shape[2], GivenTable.shape[3]>>
               ELSE GivenTable.shape,
     data |-> GivenTable.data]

RankRule ==
    IF Rank(GivenTable) \in {2, 3, 4}
    THEN /\ Outcome.tag # "Err"
         /\ EngineRan => Engine.relative_pos = Some(Normalised)
    ELSE /\ Outcome = InvalidRank
         /\ IsNone(Outcome.value)

(* C5 as stated: a call given a relative position table of rank other than *)
(* 2, 3 or 4 fails with the invalid-rank error and returns no scores; a    *)
(* table of rank 2, 3 or 4 is not rejected and is brought to rank 4.       *)
C5_Original ==
    (Called /\ IsSome(Args.relative_pos)) => RankRule

(* C5 amended: the rank rule holds for every call that supplies relative   *)
(* embeddings to a layer built with relative attention (the only calls in  *)
(* which the engine, and so the table, is used).                           *)
C5_RankValidated ==
    (/\ Called /\ IsSome(Args.relative_pos)
     /\ IsSome(Args.relative_embeddings) /\ IsSome(Self.pos_dropout))
        => (EngineRan /\ RankRule)

C5_Witness ==
    /\ Called /\ IsSome(Args.relative_pos) /\ IsSome(Args.relative_embeddings)
    /\ Rank(GivenTable) = 3 /\ GivenTable.shape[1] = 2
    /\ Outcome.tag = "Ok"
    /\ Engine.relative_pos = Some(Normalised)

\* projections against enabled kinds
ProjectionsMatchTypes ==
    /\ IsSome(Self.pos_proj) <=> (Enabled("c2p") \/ Enabled("p2p"))
    /\ IsSome(Self.pos_q_proj) <=> (Enabled("p2c") \/ Enabled("p2p"))

ProjectionFound ==
    Called => Outcome.at \notin {"pos_key_layer.unwrap()", "pos_query_layer.unwrap()"}

(* C6 as stated: in every constructed layer pos_proj is present iff c2p or *)
(* p2p is enabled and pos_q_proj is present iff p2c or p2p is enabled, and *)
(* no engine run finds the projection of an enabled term missing.          *)
C6_Original ==
    IsSome(layer) => (ProjectionsMatchTypes /\ ProjectionFound)

(* C6 amended: the equivalences hold for every layer built with            *)
(* relative_attention enabled; a layer built without it has neither        *)
(* projection, whatever its pos_att_type; and no engine run finds the      *)
(* projection of an enabled term missing.                                  *)
C6_ProjectionsPresent ==
    IsSome(layer) =>
        /\ IsSome(Self.max_relative_positions) => ProjectionsMatchTypes
        /\ IsNone(Self.max_relative_positions) =>
              (IsNone(Self.pos_proj) /\ IsNone(Self.pos_q_proj))
        /\ ProjectionFound

C6_Witness ==
    /\ EngineRan /\ Outcome.tag = "Ok"
    /\ Self.pos_att_type = {"p2p", "p2c"}
    /\ IsSome(Self.pos_proj) /\ IsSome(Self.pos_q_proj)
    /\ IsSome(Engine.p2c_att)

\* the table of offsets i - j
IsOffsetTable(t, query_size, key_size) ==
    /\ t.shape = <<1, query_size, key_size>>
    /\ DOMAIN t.data = 0..(query_size - 1)
    /\ \A i \in 0..(query_size - 1) :
          /\ DOMAIN t.data[i] = 0..(key_size - 1)
          /\ \A j \in 0..(key_size - 1) : t.data[i][j] = i - j

(* C7: build_relative_position(query_size, key_size) is the integer table *)
(* of shape (1, query_size, key_size) with entry (0, i, j) = i - j, for    *)
(* every query_size >= 1 and key_size >= 1.                                *)
C7_RelativePositionTable ==
    EngineRan =>
        /\ IsSome(Engine.calc_relative_pos) =>
              IsOffsetTable(Unwrap(Engine.calc_relative_pos), QLen, KeyLen)
        /\ (IsSome(Engine.rebuilt) /\ Unwrap(Engine.rebuilt)) =>
              IsOffsetTable(Unwrap(Engine.r_pos), KeyLen, KeyLen)

C7_Witness ==
    /\ EngineRan
    /\ IsSome(Engine.calc_relative_pos)
    /\ QLen = 1 /\ KeyLen = 2
    /\ Unwrap(Engine.calc_relative_pos).data[0][1] = -1
    /\ IsSome(Engine.rebuilt) /\ Unwrap(Engine.rebuilt)
    /\ Unwrap(Engine.r_pos).data[1][0] = 1

\* the addends of an accumulated score
TermNames(score) == [n \in 1..Len(score.terms) |-> score.terms[n].name]
TermOf(score, n) == [shape |-> score.terms[n].shape, data |-> score.terms[n].data]

(* C8: the bias the engine returns is, starting from zero, the c2p term    *)
(* iff c2p is enabled plus the p2c term iff p2c is enabled and nothing     *)
(* else; p2p adds no term, so with pos_att_type empty or {p2p} the scores  *)
(* forward_t assembles are the content-content term plus zero.             *)
C8_BiasTerms ==
    (EngineRan /\ IsSome(Engine.score)) =>
        LET score == Unwrap(Engine.score)
            scores == Unwrap(locals.attention_scores)
        IN  /\ TermNames(score) = (IF Enabled("c2p") THEN <<"c2p">> ELSE <<>>)
                                  \o (IF Enabled("p2c") THEN <<"p2c">> ELSE <<>>)
            /\ Enabled("c2p") => TermOf(score, 1) = Unwrap(Engine.c2p_att)
            /\ Enabled("p2c") =>
                  TermOf(score, Len(score.terms)) = Unwrap(Engine.p2c_att)
            /\ scores.query = Unwrap(locals.query_layer)
            /\ scores.key = Unwrap(locals.key_layer)
            /\ scores.plus = <<score>>
            /\ (~Enabled("c2p") /\ ~Enabled("p2c")) =>
                  /\ score = Zeros1
                  /\ scores.shape = <<Batch, Heads, QLen, KeyLen>>

C8_Witness ==
    /\ EngineRan /\ IsSome(Engine.score)
    /\ Self.pos_att_type = {"p2p"}
    /\ IsSome(Self.pos_proj) /\ IsSome(Self.pos_q_proj)
    /\ Unwrap(Engine.score) = Zeros1
    /\ Unwrap(locals.attention_scores).plus = <<Zeros1>>

\* the position-to-content term of a call with a built table
P2cCase ==
    /\ EngineRan /\ Enabled("p2c")
    /\ IsNone(Args.relative_pos)
    /\ IsSome(Engine.p2c_pos)

P2cRule ==
    LET span == Unwrap(Engine.attention_span)
    IN  /\ Outcome.tag = "Ok"
        /\ IsSome(Engine.p2c_att)
        /\ Unwrap(Engine.p2c_att).shape = <<Batch, Heads, QLen, KeyLen>>
        /\ \A i \in 0..(QLen - 1), j \in 0..(KeyLen - 1) :
              Unwrap(Engine.p2c_att).data[i][j]
                 = [row |-> j, pos |-> ClampTo(i - j + span, 0, 2 * span - 1)]
        /\ Unwrap(Engine.rebuilt) <=> (QLen # KeyLen)
        /\ Unwrap(Engine.second_gather) <=> (QLen # KeyLen)
        /\ Entries(Unwrap(Engine.p2c_pos))
              \subseteq 0..(Unwrap(Engine.window).shape[2] - 1)
        /\ Unwrap(Engine.second_gather) =>
              \A i \in 0..(QLen - 1) :
                 Unwrap(Engine.relative_pos).data[i][0] \in 0..(KeyLen - 1)

(* C9 as stated: for every query_len >= 1 and key_len >= 1 with an         *)
(* internally built table, the p2c term has shape (batch, heads,           *)
(* query_len, key_len), its entry (i, j) is the raw key-times-position-    *)
(* query score of key j at position clamp(i - j + span, 0, 2*span - 1),    *)
(* the square table is rebuilt and the second gather made exactly when     *)
(* query_len # key_len, and every gather index is in bounds.               *)
C9_Original == P2cCase => P2cRule

(* C9 amended: the same, for every 1 <= query_len <= key_len.  (With       *)
(* query_len > key_len the second gather indexes the key_len rows of the   *)
(* square term by query position and the call fails.)                      *)
C9_P2cTerm == (P2cCase /\ QLen <= KeyLen) => P2cRule

C9_Witness ==
    /\ P2cCase /\ QLen = 1 /\ KeyLen = 2
    /\ Outcome.tag = "Ok"
    /\ Unwrap(Engine.rebuilt) /\ Unwrap(Engine.second_gather)
    /\ Unwrap(Engine.attention_span) = 1
    /\ Unwrap(Engine.p2c_att).data[0][1] = [row |-> 1, pos |-> 0]

\* what was added to a layer
AddedTo(t) == [n \in 1..Len(t.plus) |-> t.plus[n].src]

(* C10: both projection paths give head h its query layer from weight      *)
(* slice 3h, its key layer from slice 3h+1 and its value layer from slice  *)
(* 3h+2 (so a call with query_states = hidden_states computes the layers   *)
(* of the call without query_states); q_bias is added to the query layer,  *)
(* v_bias to the value layer and nothing to the key layer.                 *)
C10_SameSlices ==
    (Called /\ IsSome(locals.query_layer)) =>
        LET query_layer == Unwrap(locals.query_layer)
            key_layer == Unwrap(locals.key_layer)
            value_layer == Unwrap(locals.value_layer)
        IN  /\ \A h \in 0..(Heads - 1) :
                  /\ query_layer.head_cols[h] = WeightSlice(3 * h)
                  /\ key_layer.head_cols[h] = WeightSlice(3 * h + 1)
                  /\ value_layer.head_cols[h] = WeightSlice(3 * h + 2)
            /\ AddedTo(query_layer) = <<"q_bias">>
            /\ AddedTo(key_layer) = <<>>
            /\ AddedTo(value_layer) = <<"v_bias">>
            /\ [query_layer |-> query_layer, key_layer |-> key_layer,
                value_layer |-> value_layer]
                 = [l \in {"query_layer", "key_layer", "value_layer"} |->
                      [incremental_layers(Self, Args.hidden_states,
                                          Args.hidden_states)[l]
                         EXCEPT !.plus = Unwrap(locals[l]).plus,
                                !.div = Unwrap(locals[l]).div,
                                !.src = Unwrap(locals[l]).src,
                                !.shape = Unwrap(locals[l]).shape]]

====
